---- MODULE Spec2Model ----
(***************************************************************************)
(* A model of the Animation class of packages/animation/src/Animation.ts.  *)
(*                                                                         *)
(* Times are integers in milliseconds, as performance.now() and the frame  *)
(* timestamps are.  The options duration, delay and endDelay are whole     *)
(* seconds; tick's "t /= 1000" is carried out exactly by comparing         *)
(* millisecond values against the options multiplied by MsPerSecond.       *)
(* A progress value p in [0,1] of an iteration of `d` milliseconds is      *)
(* represented by the integer p * d.                                       *)
(*                                                                         *)
(* requestAnimationFrame handles are opaque: the class only stores the     *)
(* handle returned inside tick in frameRequestId and hands it to           *)
(* cancelAnimationFrame.  A pending callback is therefore represented by    *)
(* whether its handle is the one frameRequestId currently holds:           *)
(* rafQueue.held says that the callback frameRequestId names is pending,   *)
(* rafQueue.other counts the pending callbacks whose handle the instance   *)
(* does not hold (play() drops the handle it gets).                        *)
(***************************************************************************)
EXTENDS Integers, Sequences, FiniteSets, TLC

\* ------------------------------------------------------------------ bounds

\* tick: "t /= 1000"
MsPerSecond == 1000

\* the clock advances in steps of half a second, MaxClock times at most
ClockStep == MsPerSecond \div 2
MaxClock == 3
\* options drawn at construction
MaxDuration == 2
MaxDelay == 1
MaxEndDelay == 1
MaxRepeat == 2
\* pending frame callbacks of the instance
MaxPending == 2
\* startTime is kept within -MaxOffset*ClockStep .. MaxClock*ClockStep
MaxOffset == 2

\* `reject(false)`: the cancellation marker, as a value no sample takes
Cancelled == -1

Directions == {"normal", "reverse", "alternate", "alternate-reverse"}
AllConfigs ==
    [duration : 1..MaxDuration, delay : 0..MaxDelay, endDelay : 0..MaxEndDelay,
     repeat : 0..MaxRepeat, direction : Directions]
\* the options the instances under control are constructed with
Configs ==
    {[duration |-> 1, delay |-> 0, endDelay |-> 0, repeat |-> 0, direction |-> "normal"],
     [duration |-> 1, delay |-> 1, endDelay |-> 0, repeat |-> 0, direction |-> "reverse"],
     [duration |-> 1, delay |-> 0, endDelay |-> 1, repeat |-> 0, direction |-> "alternate-reverse"],
     [duration |-> 1, delay |-> 0, endDelay |-> 0, repeat |-> 1, direction |-> "alternate"]}
\* the values playbackRate is set to (reverse() reaches -1)
Rates == {0, 1}
\* the values currentTime is set to
SeekTimes == {0, MsPerSecond}
MaxNow == MaxClock * ClockStep
MinStart == 0 - MaxOffset * ClockStep

\* `undefined` and a defined number, for pauseTime
Undefined == <<>>
Some(v) == <<v>>
\* JavaScript truthiness of `number | undefined`: undefined and 0 are falsy
Truthy(x) == x # Undefined /\ x[1] # 0

Max(a, b) == IF a >= b THEN a ELSE b
Min(a, b) == IF a <= b THEN a ELSE b

VARIABLES
    options,          \* the constructor's options (immutable)
    now,              \* performance.now()
    playState, startTime, pauseTime, rate, t, cancelTimestamp,
    frameRequestId,   \* "undefined" or "set"
    rafQueue,         \* the instance's pending requestAnimationFrame callbacks
    finished,         \* the promise: [state, value]
    delivered,        \* the values passed to output() by the last step
    writerCalls,      \* invocations of resolve and of reject so far: none, one, many
    lastCall,         \* the last method called on the instance
    fired             \* whether a frame callback has fired since construction

vars == <<options, now, playState, startTime, pauseTime, rate, t, cancelTimestamp,
          frameRequestId, rafQueue, finished, delivered, writerCalls, lastCall, fired>>

\* ------------------------------------------------------------ the sampler

\* keyframes: number[] = [0, 1]
Keyframe0 == 0
Keyframe1 == 1

\* `duration` in the unit of the timestamps
DurationMs(opt) == opt.duration * MsPerSecond

\* const totalDuration = duration * (repeat + 1)
TotalDuration(opt) == opt.duration * (opt.repeat + 1) * MsPerSecond

\* a tick that does not substitute pauseTime
FrozenTimestampLive(timestamp, pt) == timestamp

\* if (this.pauseTime) timestamp = this.pauseTime
FrozenTimestamp(timestamp, pt) == IF Truthy(pt) THEN pt[1] ELSE timestamp

\* let t = (timestamp - this.startTime) * this.rate
Elapsed(timestamp, pt, st, r) == (FrozenTimestamp(timestamp, pt) - st) * r

\* local time without the clamp at 0
LocalTimeUnclamped(opt, e, ps) ==
    IF ps = "finished" THEN TotalDuration(opt)
    ELSE e - opt.delay * MsPerSecond

\* local time without the jump to totalDuration when finished
LocalTimeIgnoringFinished(opt, e, ps) == Max(e - opt.delay * MsPerSecond, 0)

\* t = Math.max(t - delay, 0); if (this.playState === "finished") t = totalDuration
LocalTime(opt, e, ps) ==
    IF ps = "finished" THEN TotalDuration(opt)
    ELSE Max(e - opt.delay * MsPerSecond, 0)

\* Math.floor(progress), before the boundary adjustment
FloorProgress(opt, lt) == lt \div DurationMs(opt)

\* the remainder alone: a boundary counts as the start of the next iteration
BoundaryProgressAsStart(opt, lt) == lt % DurationMs(opt)

\* progress % 1.0, set to 1 when it is 0 and progress >= 1
BoundaryProgress(opt, lt) ==
    LET r == lt % DurationMs(opt)
    IN  IF r = 0 /\ lt >= DurationMs(opt) THEN DurationMs(opt) ELSE r

\* iterationProgress === 1 && currentIteration--
CurrentIteration(opt, lt) ==
    IF BoundaryProgress(opt, lt) = DurationMs(opt)
    THEN FloorProgress(opt, lt) - 1
    ELSE FloorProgress(opt, lt)

\* alternate and alternate-reverse taken for each other
IterationProgressSwapped(opt, lt) ==
    LET p == BoundaryProgress(opt, lt)
        iterationIsOdd == CurrentIteration(opt, lt) % 2 # 0
    IN  IF \/ opt.direction = "reverse"
           \/ (opt.direction = "alternate" /\ ~iterationIsOdd)
           \/ (opt.direction = "alternate-reverse" /\ iterationIsOdd)
        THEN DurationMs(opt) - p
        ELSE p

\* the direction adjustment of iterationProgress
IterationProgress(opt, lt) ==
    LET p == BoundaryProgress(opt, lt)
        iterationIsOdd == CurrentIteration(opt, lt) % 2 # 0
    IN  IF \/ opt.direction = "reverse"
           \/ (opt.direction = "alternate" /\ iterationIsOdd)
           \/ (opt.direction = "alternate-reverse" /\ ~iterationIsOdd)
        THEN DurationMs(opt) - p
        ELSE p

\* t >= totalDuration ? 1 : Math.min(iterationProgress, 1)
SampleProgress(opt, lt) ==
    IF lt >= TotalDuration(opt) THEN DurationMs(opt)
    ELSE Min(IterationProgress(opt, lt), DurationMs(opt))

\* interpolate(progress) for two keyframes and linear easing, times DurationMs
interpolate(opt, p) == Keyframe0 * DurationMs(opt) + (Keyframe1 - Keyframe0) * p

\* this.playState === "finished" || t >= totalDuration + endDelay
IsAnimationFinished(opt, lt, ps) ==
    ps = "finished" \/ lt >= TotalDuration(opt) + opt.endDelay * MsPerSecond

\* ------------------------------------------------ promise and frame queue

Pending == [state |-> "pending", value |-> 0]

\* a resolve that overwrites a settled promise
PromiseResolveUnguarded(p, v) == [state |-> "resolved", value |-> v]

\* the promise's resolve function: only a pending promise settles
PromiseResolve(p, v) ==
    IF p.state = "pending" THEN [state |-> "resolved", value |-> v] ELSE p

\* the promise's reject function
PromiseReject(p, v) ==
    IF p.state = "pending" THEN [state |-> "rejected", value |-> v] ELSE p

\* one more invocation of a completion writer: none, one, or two and more
CountCall(n) == IF n = "none" THEN "one" ELSE "many"

\* a tick that does not request the next frame
RequestHeldFrameLost(q) == q

\* this.frameRequestId = requestAnimationFrame(this.tick): the callback whose
\* handle was held before is still pending, under a handle no longer held
RequestHeldFrame(q) ==
    [held |-> TRUE, other |-> q.other + (IF q.held THEN 1 ELSE 0)]

\* requestAnimationFrame(this.tick), the handle dropped
RequestFrame(q) == [q EXCEPT !.other = @ + 1]

\* cancelAnimationFrame(this.frameRequestId)
CancelFrame(q) == [q EXCEPT !.held = FALSE]

PendingFrames(q) == q.other + (IF q.held THEN 1 ELSE 0)

\* ------------------------------------------------------------------- tick

\* this.tick(timestamp) on the instance state S
tick(opt, S, timestamp) ==
    LET e == Elapsed(timestamp, S.pauseTime, S.startTime, S.rate)
        lt == LocalTime(opt, e, S.playState)
        latest == interpolate(opt, SampleProgress(opt, lt))
        isAnimationFinished == IsAnimationFinished(opt, lt, S.playState)
        reschedule == ~isAnimationFinished /\ S.playState # "idle"
    IN  [S EXCEPT
            !.t = e,
            !.delivered = Append(@, latest),
            !.playState = IF isAnimationFinished THEN "finished" ELSE @,
            !.finished = IF isAnimationFinished THEN PromiseResolve(@, latest) ELSE @,
            !.writerCalls = IF isAnimationFinished THEN CountCall(@) ELSE @,
            !.frameRequestId = IF reschedule THEN "set" ELSE @,
            !.rafQueue = IF reschedule THEN RequestHeldFrame(@) ELSE @]

\* the instance state as a record, with no output delivered yet in this step
Cur ==
    [playState |-> playState, startTime |-> startTime, pauseTime |-> pauseTime,
     rate |-> rate, t |-> t, cancelTimestamp |-> cancelTimestamp,
     frameRequestId |-> frameRequestId, rafQueue |-> rafQueue,
     finished |-> finished, delivered |-> <<>>, writerCalls |-> writerCalls]

Become(S) ==
    /\ playState' = S.playState
    /\ startTime' = S.startTime
    /\ pauseTime' = S.pauseTime
    /\ rate' = S.rate
    /\ t' = S.t
    /\ cancelTimestamp' = S.cancelTimestamp
    /\ frameRequestId' = S.frameRequestId
    /\ rafQueue' = S.rafQueue
    /\ finished' = S.finished
    /\ delivered' = S.delivered
    /\ writerCalls' = S.writerCalls

InRange(st) == MinStart <= st /\ st <= MaxNow

\* ---------------------------------------------------------------- methods

\* play() on the instance state S at clock time n
PlayOn(S, n) ==
    [S EXCEPT
        !.playState = "running",
        !.startTime = IF Truthy(S.pauseTime) THEN n - (S.pauseTime[1] - S.startTime)
                      ELSE IF S.startTime = 0 THEN n
                      ELSE @,
        !.pauseTime = Undefined,
        !.rafQueue = RequestFrame(@)]

\* pause()
PauseOn(S, n) == [S EXCEPT !.playState = "paused", !.pauseTime = Some(n)]

\* finish()
FinishOn(opt, S) == tick(opt, [S EXCEPT !.playState = "finished"], 0)

\* cancel()
CancelOn(opt, S) ==
    LET S1 == tick(opt, [S EXCEPT !.playState = "idle"], S.cancelTimestamp)
    IN  [S1 EXCEPT
            !.finished = PromiseReject(@, Cancelled),
            !.writerCalls = CountCall(@),
            !.rafQueue = IF S1.frameRequestId # "undefined" THEN CancelFrame(@) ELSE @]

\* a reverse() that also drops the pause timestamp
ReverseOnClearingPause(S) == [S EXCEPT !.rate = @ * (-1), !.pauseTime = Undefined]

\* reverse()
ReverseOn(S) == [S EXCEPT !.rate = @ * (-1)]

\* commitStyles()
CommitStylesOn(S, n) == [S EXCEPT !.cancelTimestamp = n]

\* t / this.rate, for a rate that divides t
Quotient(a, b) == IF b < 0 THEN (0 - a) \div (0 - b) ELSE a \div b

\* set currentTime(t)
SetCurrentTimeOn(S, n, x) ==
    IF Truthy(S.pauseTime) \/ S.rate = 0
    THEN [S EXCEPT !.pauseTime = Some(x)]
    ELSE [S EXCEPT !.startTime = n - Quotient(x, S.rate)]

\* set playbackRate(rate)
SetPlaybackRateOn(S, r) == [S EXCEPT !.rate = r]

\* ------------------------------------------------------------ the actions

Construct(configs) ==
    /\ options \in configs
    /\ now \in {0, ClockStep}
    /\ LET S0 == [playState |-> "idle", startTime |-> 0, pauseTime |-> Undefined,
                  rate |-> 1, t |-> 0, cancelTimestamp |-> 0,
                  frameRequestId |-> "undefined",
                  rafQueue |-> [held |-> FALSE, other |-> 0],
                  finished |-> Pending, delivered |-> <<>>, writerCalls |-> "none"]
           S == PlayOn(S0, now)
       IN  /\ playState = S.playState
           /\ startTime = S.startTime
           /\ pauseTime = S.pauseTime
           /\ rate = S.rate
           /\ t = S.t
           /\ cancelTimestamp = S.cancelTimestamp
           /\ frameRequestId = S.frameRequestId
           /\ rafQueue = S.rafQueue
           /\ finished = S.finished
           /\ delivered = S.delivered
           /\ writerCalls = S.writerCalls
    /\ lastCall = "new"
    /\ fired = FALSE

Init == Construct(Configs)

\* lastCall tells construction and pause() from the other methods
Call(name) ==
    /\ lastCall' = (IF name \in {"new", "pause"} THEN name ELSE "other")
    /\ UNCHANGED <<options, now, fired>>

play ==
    /\ PendingFrames(rafQueue) < MaxPending
    /\ InRange(PlayOn(Cur, now).startTime)
    /\ Become(PlayOn(Cur, now))
    /\ Call("play")

pause ==
    /\ Become(PauseOn(Cur, now))
    /\ Call("pause")

finish ==
    /\ Become(FinishOn(options, Cur))
    /\ Call("finish")

cancel ==
    /\ Become(CancelOn(options, Cur))
    /\ Call("cancel")

reverse ==
    /\ Become(ReverseOn(Cur))
    /\ Call("reverse")

commitStyles ==
    /\ Become(CommitStylesOn(Cur, now))
    /\ Call("commitStyles")

SetCurrentTime(x) ==
    /\ InRange(SetCurrentTimeOn(Cur, now, x).startTime)
    /\ Become(SetCurrentTimeOn(Cur, now, x))
    /\ Call("currentTime")

SetPlaybackRate(r) ==
    /\ Become(SetPlaybackRateOn(Cur, r))
    /\ Call("playbackRate")

\* the frame clock runs the callback whose handle frameRequestId holds
FireHeldFrame ==
    /\ rafQueue.held
    /\ Become(tick(options, [Cur EXCEPT !.rafQueue.held = FALSE], now))
    /\ fired' = TRUE
    /\ UNCHANGED <<options, now, lastCall>>

\* the frame clock runs a callback whose handle the instance does not hold
FireOtherFrame ==
    /\ rafQueue.other > 0
    /\ Become(tick(options, [Cur EXCEPT !.rafQueue.other = @ - 1], now))
    /\ fired' = TRUE
    /\ UNCHANGED <<options, now, lastCall>>

FireFrame == FireHeldFrame \/ FireOtherFrame

\* time passes: performance.now() grows by ClockStep, up to `limit`
Advance(limit) ==
    /\ now + ClockStep <= limit
    /\ now' = now + ClockStep
    /\ delivered' = <<>>
    /\ UNCHANGED <<options, playState, startTime, pauseTime, rate, t, cancelTimestamp,
                   frameRequestId, rafQueue, finished, writerCalls, lastCall, fired>>

AdvanceClock == Advance(MaxNow)

Next ==
    \/ play
    \/ pause
    \/ finish
    \/ cancel
    \/ reverse
    \/ \E x \in SeekTimes : SetCurrentTime(x)
    \/ \E r \in Rates : SetPlaybackRate(r)
    \/ FireHeldFrame
    \/ FireOtherFrame
    \/ AdvanceClock

Spec == Init /\ [][Next]_vars

\* An animation left alone: only the frame clock acts, and it fires every
\* scheduled callback while time passes, long enough for the configuration:
\* constructed at ClockStep at the latest, it is over at LiveHorizon.
LiveHorizon ==
    ClockStep + TotalDuration(options) + (options.delay + options.endDelay) * MsPerSecond

LiveClock == Advance(LiveHorizon)

LiveInit == Construct(AllConfigs)

LiveNext ==
    \/ FireHeldFrame
    \/ FireOtherFrame
    \/ LiveClock

LiveSpec ==
    /\ LiveInit
    /\ [][LiveNext]_vars
    /\ WF_vars(FireHeldFrame)
    /\ WF_vars(FireOtherFrame)
    /\ WF_vars(LiveClock)

\* --------------------------------------------------------------- the claims

\* interpolate(1): the sample at the end of the animation
FinalSample == interpolate(options, DurationMs(options))

\* C1: over the lifetime of an instance resolve and reject are invoked at most
\* once in total.
C1_SingleWriterCall == writerCalls # "many"

\* C2: the outcome of the completion promise settles at most once: once it is
\* resolved or rejected it keeps that state and that value under every step.
C2_SettlesOnce == [][finished.state # "pending" => finished' = finished]_vars

\* a rejected promise on which resolve was invoked afterwards, by finish()
C2_Witness ==
    /\ finished = [state |-> "rejected", value |-> Cancelled]
    /\ playState = "finished"
    /\ writerCalls = "many"

C4_CancelRejects ==
    [][(cancel /\ finished.state = "pending") =>
          (playState' = "idle" /\ finished'.state = "rejected")]_vars

\* C5: once the animation is finished or cancelled, no frame callback of the
\* instance fires until play() is called again.
C5_NoFrameAfterTermination ==
    [][FireFrame => playState \notin {"idle", "finished"}]_vars

C7_FinishIsSynchronous ==
    [][(finish /\ finished.state = "pending") =>
          /\ playState' = "finished"
          /\ delivered' = <<FinalSample>>
          /\ finished' = [state |-> "resolved", value |-> FinalSample]
          /\ rafQueue' = rafQueue]_vars

\* finished by finish() before any frame fired, short of the total duration
C7_Witness ==
    /\ ~fired
    /\ playState = "finished"
    /\ finished.state = "resolved"
    /\ delivered = <<FinalSample>>
    /\ t < TotalDuration(options)

\* the state natural completion ends in
Completed ==
    /\ playState = "finished"
    /\ finished.state = "resolved"
    /\ delivered = <<finished.value>>
    /\ PendingFrames(rafQueue) = 0

\* C8: an animation that is left alone while the frame clock keeps firing
\* eventually finishes: playState finished, the promise resolved with the value
\* output on that tick, no frame scheduled.
C8_EventuallyCompletes == <>Completed

\* completed by a tick, after the delay, the iterations and the end delay
C8_Witness ==
    /\ Completed
    /\ fired
    /\ options.repeat > 0
    /\ options.delay > 0
    /\ options.endDelay > 0
    /\ t >= TotalDuration(options) + (options.delay + options.endDelay) * MsPerSecond

\* C9: a second pause() right after a pause(), the clock possibly advanced in
\* between, leaves playState and pauseTime as the first call left them.
C9_PauseIdempotent ==
    [][(pause /\ lastCall = "pause") =>
          (playState' = playState /\ pauseTime' = pauseTime)]_vars

\* C10: while paused or at rate 0, after currentTime is set to x reading
\* currentTime returns x.
C10_CurrentTimeRoundTrip ==
    [][\A x \in SeekTimes :
          (SetCurrentTime(x) /\ (playState = "paused" \/ rate = 0)) => t' = x]_vars

\* An animation running forward on which reverse() is called once: besides
\* the frame clock, the only call is one reverse() at rate 1.
ReverseOnce ==
    /\ rate = 1
    /\ playState = "running"
    /\ reverse

ReverseNext ==
    \/ FireHeldFrame
    \/ FireOtherFrame
    \/ AdvanceClock
    \/ ReverseOnce

ReverseSpec == LiveInit /\ [][ReverseNext]_vars

\* the local time of the sample that computed the elapsed time e
LocalOf(e) == Max(e - options.delay * MsPerSecond, 0)

\* C11: after one reverse() of an animation running forward at local time
\* L > 0, the next tick samples a local time in (0, L], not 0.  The case
\* taken is the sharpest one: the last forward tick ran at the current clock
\* time (t = now - startTime > 0), so reverse() was called at local time L
\* exactly and the tick fires at that same instant.
C11_ReverseContinuesFromLocalTime ==
    [][(/\ FireFrame
        /\ rate = -1
        /\ playState = "running"
        /\ t = now - startTime
        /\ LocalOf(t) > 0) =>
          (0 < LocalOf(t') /\ LocalOf(t') <= LocalOf(t))]_vars

\* C12: play() called while playState is running changes neither playState,
\* startTime, pauseTime nor the pending frame callbacks of the instance.
C12_PlayIdempotentWhenRunning ==
    [][(play /\ playState = "running") =>
          /\ playState' = playState
          /\ startTime' = startTime
          /\ pauseTime' = pauseTime
          /\ rafQueue' = rafQueue]_vars

\* C13: play() at clock time R right after a pause() at clock time P (no other
\* call in between) leaves playState running and pauseTime cleared, and a tick
\* at a timestamp T >= R then computes the elapsed time (T - R + P - S) * rate,
\* S being the startTime before the pause.
C13_ResumeIsContinuous ==
    [][(play /\ lastCall = "pause") =>
          /\ playState' = "running"
          /\ pauseTime' = Undefined
          /\ \A T \in {now, now + ClockStep} :
                Elapsed(T, pauseTime', startTime', rate') =
                    (T - now + pauseTime[1] - startTime) * rate]_vars

\* C14: setting playbackRate to a non-zero rate while running does not move
\* the elapsed time already sampled: right after a tick has sampled t at the
\* current clock time, a tick at that same timestamp after the set samples t.
C14_RateChangeKeepsElapsed ==
    [][\A r \in Rates \ {0} :
          (/\ SetPlaybackRate(r)
           /\ playState = "running"
           /\ delivered # <<>>
           /\ t = Elapsed(now, pauseTime, startTime, rate)) =>
              Elapsed(now, pauseTime', startTime', rate') = t]_vars

\* C15: at most one frame callback of the instance is pending.
C15_OneFramePending == PendingFrames(rafQueue) <= 1

\* C16: once playState is finished, only cancel() moves it out of finished.
C16_FinishedIsTerminal ==
    [][playState = "finished" => (playState' = "finished" \/ cancel)]_vars

\* C17: after pause() at clock time P and until the next call, every tick
\* computes the elapsed time (P - startTime) * rate, whatever its timestamp,
\* for every P including 0.
C17_PausedSamplingIsFrozen ==
    [][(FireFrame /\ playState = "paused" /\ lastCall = "pause") =>
          t' = (pauseTime[1] - startTime) * rate]_vars

\* C18: with repeat >= 1, a tick whose local time is exactly k * duration,
\* 1 <= k <= repeat + 1, is in iteration k - 1 with iteration progress 1
\* (so direction normal outputs the sample at progress 1, not at 0).
C18_BoundaryEndsIteration ==
    LET D == DurationMs(options)
        lt == LocalOf(t)
    IN  \A k \in 1..(options.repeat + 1) :
            (/\ delivered # <<>>
             /\ options.repeat >= 1
             /\ lt = k * D) =>
                /\ CurrentIteration(options, lt) = k - 1
                /\ BoundaryProgress(options, lt) = D
                /\ options.direction = "normal" => delivered = <<interpolate(options, D)>>

\* repeat = 2, a tick at local time = duration, short of the end
C18_Witness ==
    /\ fired
    /\ delivered = <<interpolate(options, DurationMs(options))>>
    /\ options.repeat = 2
    /\ options.direction = "normal"
    /\ LocalOf(t) = DurationMs(options)
    /\ playState = "running"

\* C19: with direction alternate and repeat >= 1, a tick at a local time short
\* of totalDuration passes to the interpolator the iteration progress p when
\* the iteration index is even and 1 - p when it is odd.
C19_AlternateDirectionLaw ==
    LET D == DurationMs(options)
        lt == LocalOf(t)
        iteration == IF lt > 0 /\ lt % D = 0 THEN (lt \div D) - 1 ELSE lt \div D
        p == lt - iteration * D
    IN  (/\ delivered # <<>>
         /\ options.direction = "alternate"
         /\ options.repeat >= 1
         /\ lt < TotalDuration(options)) =>
            delivered = <<interpolate(options, IF iteration % 2 = 0 THEN p ELSE D - p)>>

\* repeat = 1: the tick at 1.25 * duration has sampled progress 0.75
C19_Witness ==
    /\ fired
    /\ options.direction = "alternate"
    /\ options.repeat = 1
    /\ 4 * LocalOf(t) = 5 * DurationMs(options)
    /\ delivered = <<interpolate(options, (3 * DurationMs(options)) \div 4)>>

\* the tick at 0.25 * duration has sampled progress 0.25
C19_WitnessEven ==
    /\ fired
    /\ options.direction = "alternate"
    /\ options.repeat = 1
    /\ 4 * LocalOf(t) = DurationMs(options)
    /\ delivered = <<interpolate(options, DurationMs(options) \div 4)>>

====
